---------------------------- MODULE Spec2Model ----------------------------
(***************************************************************************)
(* A model of tools/autoware-interfaces/generate.py: the markdown          *)
(* front-matter loader, the type resolver loop, the dependency graph, the  *)
(* page generator and the table formatter.                                 *)
(*                                                                         *)
(* A Python str is modelled as a sequence of symbols.  The separators the  *)
(* code splits on ("/" and "[") are symbols of their own; every other      *)
(* symbol stands for a run of characters holding no separator.  Where the  *)
(* code takes len() of a string (tabulate) the symbols are single          *)
(* characters.                                                             *)
(***************************************************************************)
EXTENDS Integers, Sequences, FiniteSets, TLC

VARIABLES
    pc,         \* position in main / in the function under study
    todo,       \* the markdown files adapi.glob still has to yield
    pages,      \* list of loaded page records
    depends,    \* set of pending type names
    visited,    \* set of type names already passed to parse_rosidl_file
    specs,      \* dict: type name -> {"msg"|"req"|"res" -> {field -> type}}
    corpus,     \* schema files read so far: type name -> content
    type_uses,  \* dict: type name -> set of type names
    type_used,  \* dict: type name -> set of type names
    yamlOut,    \* yaml/autoware-interfaces.yaml
    typesDir,   \* files under docs/.../ad-api/types, path -> content
    listIndex,  \* docs/.../ad-api/list/index.md
    err,        \* the exception that ended the run, or "none"
    arg,        \* input of the function under study
    ret         \* its result

vars == <<pc, todo, pages, depends, visited, specs, corpus, type_uses,
          type_used, yamlOut, typesDir, listIndex, err, arg, ret>>

mainVars == <<todo, pages, depends, visited, specs, corpus, type_uses,
              type_used, yamlOut, typesDir, listIndex, err>>

-----------------------------------------------------------------------------
(* Bounds *)

MaxPages == 2
MaxFields == 1
MaxNameLen == 5
MaxLines == 4
MaxRows == 2
MaxCellLen == 2

-----------------------------------------------------------------------------
(* Python helpers *)

Max(a, b) == IF a >= b THEN a ELSE b
Min(a, b) == IF a <= b THEN a ELSE b

Range(f) == {f[x] : x \in DOMAIN f}

\* The empty dict.
EmptyDict == <<>>

\* d with d[k] = v set.
DictSet(d, k, v) == [x \in DOMAIN d \cup {k} |-> IF x = k THEN v ELSE d[x]]

\* str.split(sep) on a sequence of symbols: the pieces between occurrences of sep.
RECURSIVE Split(_, _)
Split(s, sep) ==
    IF \A i \in 1..Len(s) : s[i] # sep
    THEN <<s>>
    ELSE LET i == CHOOSE j \in 1..Len(s) :
                    s[j] = sep /\ \A k \in 1..(j - 1) : s[k] # sep
         IN <<SubSeq(s, 1, i - 1)>> \o Split(SubSeq(s, i + 1, Len(s)), sep)

-----------------------------------------------------------------------------
(* Type names *)

PkgV1 == "autoware_adapi_v1_msgs"
PkgVersion == "autoware_adapi_version_msgs"

targets == {<<PkgVersion>>, <<PkgV1>>}

is_documentation_msg(name) == Split(name, "/")[1] \in targets

strip_array_suffix(name) == Split(name, "[")[1]

normalize_msg_name(name) ==
    LET parts == Split(name, "/")
    IN IF Len(parts) = 1 THEN parts[1]
       ELSE parts[1] \o <<"/", "msg", "/">> \o parts[2]


-----------------------------------------------------------------------------
(* Metadata loader.  A markdown file is the list of its lines              *)
(* (path.read_text().splitlines()); a line is a string.  A front-matter    *)
(* line is "key: value", written <<key, ":">> \o value; the nested         *)
(* `type: {name: ...}` entry is written as the one key "type".             *)

Delim == <<"---">>
KV(k, v) == <<k, ":">> \o v
IsKV(line) == Len(line) >= 2 /\ line[2] = ":"

None == [kind |-> "none"]
Raise(e) == [kind |-> "raise", exc |-> e]
Value(v) == [kind |-> "value", value |-> v]

\* yaml.safe_load of the joined block: None for an empty document, a dict for
\* "key: value" lines (a later duplicate key wins), an error for anything else.
yaml_safe_load(block) ==
    IF block = <<>> THEN None
    ELSE IF \E i \in 1..Len(block) : ~IsKV(block[i]) THEN Raise("YAMLError")
    ELSE LET keys == {block[i][1] : i \in 1..Len(block)}
             last(k) == CHOOSE i \in 1..Len(block) :
                           block[i][1] = k
                           /\ \A j \in (i + 1)..Len(block) : block[j][1] # k
         IN Value([k \in keys |->
                     SubSeq(block[last(k)], 3, Len(block[last(k)]))])

test_markdown_metadata(data) ==
    IF data.kind = "raise" THEN data
    ELSE IF data.kind = "none" THEN Raise("TypeError")
    ELSE IF "status" \notin DOMAIN data.value THEN Raise("KeyError")
    ELSE data

\* lines.index("---", 1), as a 1-based position; 0 when list.index raises.
IndexFrom2(lines) ==
    IF \E j \in 2..Len(lines) : lines[j] = Delim
    THEN CHOOSE j \in 2..Len(lines) :
            lines[j] = Delim /\ \A k \in 2..(j - 1) : lines[k] # Delim
    ELSE 0

load_markdown_metadata(lines) ==
    IF 2 < Len(lines) /\ lines[1] = Delim
    THEN LET j == IndexFrom2(lines)
         IN IF j = 0 THEN Raise("ValueError")
            ELSE test_markdown_metadata(yaml_safe_load(SubSeq(lines, 2, j - 1)))
    ELSE None

-----------------------------------------------------------------------------
(* Type resolver *)

\* {field.name: normalize_msg_name(field.type) for field in spec.fields};
\* spec.fields is a list of [name, type] records, type being str(field.type).
field_dict(fields) ==
    [n \in {fields[i].name : i \in 1..Len(fields)} |->
        LET i == CHOOSE j \in 1..Len(fields) :
                    fields[j].name = n
                    /\ \A k \in (j + 1)..Len(fields) : fields[k].name # n
        IN normalize_msg_name(fields[i].type)]

\* Mutant: the array suffix is not stripped before the name is queued.
parse_rosidl_spec_unstripped(dep, vis, fields) ==
    LET dict == field_dict(fields)
    IN [fields |-> dict, depends |-> dep \cup {n \in Range(dict) : n \notin vis}]

\* Mutant: a visited name is queued again.
parse_rosidl_spec_requeue(dep, vis, fields) ==
    LET dict == field_dict(fields)
        names == {strip_array_suffix(dict[n]) : n \in DOMAIN dict}
    IN [fields |-> dict, depends |-> dep \cup names]

\* Mutant: the names found replace the pending ones.
parse_rosidl_spec_overwrite(dep, vis, fields) ==
    LET dict == field_dict(fields)
        names == {strip_array_suffix(dict[n]) : n \in DOMAIN dict}
    IN [fields |-> dict, depends |-> {n \in names : n \notin vis}]

parse_rosidl_spec(dep, vis, fields) ==
    LET dict == field_dict(fields)
        names == {strip_array_suffix(dict[n]) : n \in DOMAIN dict}
    IN [fields |-> dict, depends |-> dep \cup {n \in names : n \notin vis}]

\* {k: v for k, v in d.items() if v} for a dict of dicts.
DropEmpty(d) == [k \in {x \in DOMAIN d : DOMAIN d[x] # {}} |-> d[k]]

Missing == [kind |-> "missing"]

\* The body of `if is_documentation_msg(name)` in parse_rosidl_file, vis
\* holding name already.  file is what the rosidl parser returns for name's
\* schema file (Missing: the package or file cannot be found or parsed), and
\* read tells whether the parser was called.
parse_documentation_file(dep, vis, sp, name, file) ==
    LET parts == Split(name, "/")
        same == [depends |-> dep, visited |-> vis, specs |-> sp,
                 read |-> FALSE, err |-> "none"]
    IN IF Len(parts) # 3 THEN [same EXCEPT !.err = "ValueError"]
       ELSE IF parts[2] = <<"msg">>
       THEN IF file.kind # "msg"
            THEN [same EXCEPT !.read = TRUE, !.err = "ParseError"]
            ELSE LET msg == parse_rosidl_spec(dep, vis, file.fields)
                 IN [depends |-> msg.depends, visited |-> vis,
                     specs |-> DictSet(sp, name, DropEmpty([msg |-> msg.fields])),
                     read |-> TRUE, err |-> "none"]
       ELSE IF parts[2] = <<"srv">>
       THEN IF file.kind # "srv"
            THEN [same EXCEPT !.read = TRUE, !.err = "ParseError"]
            ELSE LET req == parse_rosidl_spec(dep, vis, file.request)
                     res == parse_rosidl_spec(req.depends, vis, file.response)
                 IN [depends |-> res.depends, visited |-> vis,
                     specs |-> DictSet(sp, name,
                                  DropEmpty([req |-> req.fields, res |-> res.fields])),
                     read |-> TRUE, err |-> "none"]
       ELSE same

\* Mutant: the schema of every name is loaded, documentation type or not.
parse_rosidl_file_unfiltered(dep, vis, sp, name, file) ==
    parse_documentation_file(dep, vis \cup {name}, sp, name, file)

parse_rosidl_file(dep, vis, sp, name, file) ==
    LET vis1 == vis \cup {name}
    IN IF is_documentation_msg(name)
       THEN parse_documentation_file(dep, vis1, sp, name, file)
       ELSE [depends |-> dep, visited |-> vis1, specs |-> sp,
             read |-> FALSE, err |-> "none"]

-----------------------------------------------------------------------------
(* Table formatter.  Cells are strings of single characters. *)

Repeat(c, n) == [i \in 1..n |-> c]

\* "{:width}".format(cell) for a str: left-aligned, filled with spaces.
FormatCell(cell, width) == cell \o Repeat(" ", width - Len(cell))

\* sep.join(items)
RECURSIVE Join(_, _)
Join(items, sep) ==
    IF items = <<>> THEN <<>>
    ELSE IF Len(items) = 1 THEN items[1]
    ELSE items[1] \o sep \o Join(Tail(items), sep)

\* Mutant: the widths so far are dropped, a line's own lengths are kept.
ZipLen(line, widths) ==
    [i \in 1..Min(Len(line), Len(widths)) |-> Len(line[i])]

\* map(max, zip(map(len, line), widths)): zip stops at the shorter of the two.
ZipMax(line, widths) ==
    [i \in 1..Min(Len(line), Len(widths)) |-> Max(Len(line[i]), widths[i])]

RECURSIVE FoldWidths(_, _)
FoldWidths(data, widths) ==
    IF data = <<>> THEN widths
    ELSE FoldWidths(Tail(data), ZipMax(data[1], widths))

\* format.format(*line): one cell per replacement field, further cells ignored.
FormatLine(line, widths) ==
    <<"|", " ">>
    \o Join([i \in 1..Len(widths) |-> FormatCell(line[i], widths[i])],
            <<" ", "|", " ">>)
    \o <<" ", "|">>

tabulate(data, header) ==
    LET widths == FoldWidths(data, [i \in 1..Len(header) |-> Len(header[i])])
        border == [i \in 1..Len(widths) |-> Repeat("-", widths[i])]
        lines == <<header, border>> \o data
    IN Join([i \in 1..Len(lines) |-> FormatLine(lines[i], widths)], <<"\n">>)

-----------------------------------------------------------------------------
(* sorted(pages, key=lambda page: page["title"]) *)

Alphabet == <<"a", "b", "c", "d", "e", "k", "o", "v">>
Ord(c) == CHOOSE i \in 1..Len(Alphabet) : Alphabet[i] = c

RECURSIVE StrLess(_, _)
StrLess(a, b) ==
    IF b = <<>> THEN FALSE
    ELSE IF a = <<>> THEN TRUE
    ELSE IF a[1] = b[1] THEN StrLess(Tail(a), Tail(b))
    ELSE Ord(a[1]) < Ord(b[1])

\* Insert page p after every element whose key is not greater (a stable sort).
RECURSIVE InsertByTitle(_, _)
InsertByTitle(sorted, p) ==
    IF sorted = <<>> THEN <<p>>
    ELSE IF StrLess(p.title, sorted[1].title) THEN <<p>> \o sorted
    ELSE <<sorted[1]>> \o InsertByTitle(Tail(sorted), p)

RECURSIVE SortByTitle(_)
SortByTitle(ps) ==
    IF ps = <<>> THEN <<>>
    ELSE InsertByTitle(SortByTitle(SubSeq(ps, 1, Len(ps) - 1)), ps[Len(ps)])

-----------------------------------------------------------------------------
(* Inputs: the documentation pages and the schema files a run can meet. *)

NameFoo == <<PkgV1, "/", "msg", "/", "Foo">>
NameBar == <<PkgVersion, "/", "msg", "/", "Bar">>
NameGet == <<PkgV1, "/", "srv", "/", "Get">>
NameHeader == <<"std_msgs", "/", "msg", "/", "Header">>
NameShort == <<PkgV1, "/", "Foo">>

PageOf(title, status, type) ==
    <<Delim, KV("title", title), KV("status", status), KV("type", type),
      Delim, <<"body">>>>

\* The markdown files that may lie under the scanned tree, in the order glob
\* yields them.
PageFiles ==
    << PageOf(<<"b">>, <<"o", "k">>, NameFoo),
       PageOf(<<"a", "c">>, <<"d", "e", "v">>, NameGet),
       PageOf(<<"a">>, <<"d", "e", "v">>, NameHeader),
       PageOf(<<"d">>, <<"o", "k">>, NameShort),
       <<Delim, KV("title", <<"e">>), KV("type", NameFoo), Delim>>,
       <<Delim, KV("title", <<"k">>), KV("status", <<"o", "k">>), Delim>>,
       <<Delim, KV("title", <<"o">>), KV("status", <<"o", "k">>)>>,
       << <<"body">>, Delim, <<"body">> >> >>

\* The elements of seq at the positions in S from i on, in order.
RECURSIVE Pick(_, _, _)
Pick(seq, S, i) ==
    IF i > Len(seq) THEN <<>>
    ELSE (IF i \in S THEN <<seq[i]>> ELSE <<>>) \o Pick(seq, S, i + 1)

\* The subsequences of seq of at most n elements.
SubSeqs(seq, n) ==
    { Pick(seq, S, 1) : S \in {T \in SUBSET (1..Len(seq)) : Cardinality(T) <= n} }

\* The scanned trees: at most MaxPages of the files.
Trees == SubSeqs(PageFiles, MaxPages)

\* str(field.type) of the rosidl parser: a primitive, or package/Name, with an
\* array suffix or without.
FieldTypes ==
    << <<"string">>,
       <<PkgV1, "/", "Foo", "[", "]">>,
       <<PkgVersion, "/", "Bar">> >>

FieldNames == <<"x", "y", "z", "w">>

Fields(ts) == [i \in 1..Len(ts) |-> [name |-> FieldNames[i], type |-> ts[i]]]

\* Field lists of at most MaxFields fields of different types.
FieldLists == {Fields(ts) : ts \in SubSeqs(FieldTypes, MaxFields)}

\* Schema files: every file of at most MaxFields fields, one message of three
\* fields, two of them of one type, and one service with a request and a
\* response field.
MsgFiles ==
    {Missing}
    \cup {[kind |-> "msg", fields |-> f] : f \in FieldLists}
    \cup {[kind |-> "msg",
           fields |-> Fields(<< <<"std_msgs", "/", "Header">>,
                                <<PkgVersion, "/", "Bar">>,
                                <<PkgVersion, "/", "Bar", "[", "]">> >>)]}
SrvFiles ==
    {Missing}
    \cup {s \in {[kind |-> "srv", request |-> f, response |-> g] :
                    f \in FieldLists, g \in FieldLists} :
            Len(s.request) + Len(s.response) <= MaxFields}
    \cup {[kind |-> "srv",
           request |-> Fields(<< <<PkgVersion, "/", "Bar">> >>),
           response |-> Fields(<< <<PkgV1, "/", "Foo", "[", "]">> >>)]}

\* Whether name has the package/kind/Name shape of a schema file path.
HasSchemaPath(name) ==
    /\ Len(Split(name, "/")) = 3
    /\ Split(name, "/")[2] \in {<<"msg">>, <<"srv">>}

\* What the parser returns for name's schema file: what it returned before in
\* this run, or any content of the file's kind.
FileOf(name) ==
    IF name \in DOMAIN corpus THEN {corpus[name]}
    ELSE IF ~HasSchemaPath(name) THEN {Missing}
    ELSE IF Split(name, "/")[2] = <<"msg">> THEN MsgFiles
    ELSE SrvFiles

Old == [state |-> "old"]

NoError == [exc |-> "none", at |-> "none"]

\* base.joinpath(name).with_suffix(".md"), relative to base, as path components.
PagePath(name) ==
    LET parts == Split(name, "/")
    IN [i \in 1..Len(parts) |->
          IF i = Len(parts) THEN parts[i] \o <<".md">> ELSE parts[i]]

IndexPath == << <<"index", ".md">> >>

StaleTree ==
    [p \in { IndexPath, << <<"notes", ".md">> >>,
             PagePath(NameFoo),
             << <<PkgV1>>, <<"msg">>, <<"Gone", ".md">> >> } |-> Old]

-----------------------------------------------------------------------------
(* main *)

Init ==
    /\ pc = "load"
    /\ todo \in Trees
    /\ pages = <<>>
    /\ depends = {}
    /\ visited = {}
    /\ specs = EmptyDict
    /\ corpus = EmptyDict
    /\ type_uses = EmptyDict
    /\ type_used = EmptyDict
    /\ yamlOut = Old
    /\ typesDir = StaleTree
    /\ listIndex = Old
    /\ err = NoError
    /\ arg = <<>>
    /\ ret = <<>>

\* An unhandled exception ends the run; at is where main was.
Abort(e) == pc' = "abort" /\ err' = [exc |-> e, at |-> pc]

\* One step of `[page for page in pages if page]`: the next file is loaded.
LoadPage ==
    /\ pc = "load"
    /\ todo # <<>>
    /\ todo' = Tail(todo)
    /\ LET page == load_markdown_metadata(Head(todo))
       IN IF page.kind = "raise"
          THEN Abort(page.exc) /\ pages' = pages
          ELSE /\ pages' = IF page.kind = "value"
                           THEN Append(pages, page.value) ELSE pages
               /\ UNCHANGED <<pc, err>>
    /\ UNCHANGED <<depends, visited, specs, corpus, type_uses, type_used,
                   yamlOut, typesDir, listIndex, arg, ret>>

\* names, specs, visited, depends are set up once every page is loaded.
Seed ==
    /\ pc = "load"
    /\ todo = <<>>
    /\ IF \E i \in 1..Len(pages) : "type" \notin DOMAIN pages[i]
       THEN Abort("KeyError") /\ UNCHANGED depends
       ELSE /\ depends' = {pages[i].type : i \in 1..Len(pages)}
            /\ pc' = "resolve"
            /\ err' = err
    /\ UNCHANGED <<todo, pages, visited, specs, corpus, type_uses, type_used,
                   yamlOut, typesDir, listIndex, arg, ret>>

\* One iteration of `while depends`.  When the parser is not called, what it
\* would return does not matter and one file stands for all.
Resolve ==
    /\ pc = "resolve"
    /\ depends # {}
    /\ \E name \in depends : \E file \in FileOf(name) :
          LET r == parse_rosidl_file(depends \ {name}, visited, specs, name, file)
          IN /\ r.read \/ file = CHOOSE f \in FileOf(name) : TRUE
             /\ depends' = r.depends
             /\ visited' = r.visited
             /\ specs' = r.specs
             /\ corpus' = IF r.read THEN DictSet(corpus, name, file) ELSE corpus
             /\ IF r.err = "none" THEN UNCHANGED <<pc, err>> ELSE Abort(r.err)
    /\ UNCHANGED <<todo, pages, type_uses, type_used, yamlOut, typesDir,
                   listIndex, arg, ret>>

\* Mutant: the field list is exported in the loop, at every iteration's end.
ExportEarly ==
    /\ pc = "resolve"
    /\ yamlOut' = [state |-> "written", types |-> specs]
    /\ pc' = IF depends = {} THEN "graph" ELSE pc
    /\ UNCHANGED <<todo, pages, depends, visited, specs, corpus, type_uses,
                   type_used, typesDir, listIndex, err, arg, ret>>

\* The loop is left and the field list is exported.
Export ==
    /\ pc = "resolve"
    /\ depends = {}
    /\ yamlOut' = [state |-> "written", types |-> specs]
    /\ pc' = "graph"
    /\ UNCHANGED <<todo, pages, depends, visited, specs, corpus, type_uses,
                   type_used, typesDir, listIndex, err, arg, ret>>

\* The (user, name) pairs the three nested loops visit: every field type of
\* every resolved spec, array suffix stripped, that is a documentation type.
Edges(sp) ==
    UNION { UNION { { <<user, strip_array_suffix(sp[user][k][f])>> :
                        f \in { g \in DOMAIN sp[user][k] :
                                  is_documentation_msg(
                                      strip_array_suffix(sp[user][k][g])) } } :
                    k \in DOMAIN sp[user] } :
            user \in DOMAIN sp }

\* Mutant: the reverse edge is stored under the user instead of the used type.
add_edge_swapped(g, user, name) ==
    IF name \notin DOMAIN g.used
    THEN [g EXCEPT !.err = "KeyError"]
    ELSE [g EXCEPT !.uses[user] = @ \cup {name}, !.used[user] = @ \cup {name}]

\* type_uses[user].add(name); type_used[name].add(user)
add_edge(g, user, name) ==
    IF name \notin DOMAIN g.used
    THEN [g EXCEPT !.err = "KeyError"]
    ELSE [g EXCEPT !.uses[user] = @ \cup {name}, !.used[name] = @ \cup {user}]

RECURSIVE AddEdges(_, _)
AddEdges(g, edges) ==
    IF edges = {} \/ g.err # "none" THEN g
    ELSE LET e == CHOOSE x \in edges : TRUE
         IN AddEdges(add_edge(g, e[1], e[2]), edges \ {e})

type_graph(sp) ==
    AddEdges([uses |-> [n \in DOMAIN sp |-> {}],
              used |-> [n \in DOMAIN sp |-> {}],
              err |-> "none"], Edges(sp))

\* The data type dependencies are created.
Graph ==
    /\ pc = "graph"
    /\ LET g == type_graph(specs)
       IN /\ type_uses' = g.uses
          /\ type_used' = g.used
          /\ IF g.err = "none" THEN pc' = "clean" /\ err' = err ELSE Abort(g.err)
    /\ UNCHANGED <<todo, pages, depends, visited, specs, corpus, yamlOut,
                   typesDir, listIndex, arg, ret>>

\* Mutant: the files directly under base are removed, the directories kept.
clean_types_files(dir) == [p \in {q \in DOMAIN dir : Len(q) > 1} |-> dir[p]]

\* shutil.rmtree of every directory under base: only the files directly under
\* base are left.
clean_types(dir) == [p \in {q \in DOMAIN dir : Len(q) = 1} |-> dir[p]]

Clean ==
    /\ pc = "clean"
    /\ typesDir' = clean_types(typesDir)
    /\ pc' = "generate"
    /\ UNCHANGED <<todo, pages, depends, visited, specs, corpus, type_uses,
                   type_used, yamlOut, listIndex, err, arg, ret>>

\* The page of one type: the front matter with its empty lists left out (the
\* sorted lists are written as the sets they list) and the schema file's text.
type_page(name) ==
    LET keys == {"title"} \cup (IF type_uses[name] # {} THEN {"uses"} ELSE {})
                          \cup (IF type_used[name] # {} THEN {"used"} ELSE {})
    IN [state |-> "written",
        front |-> [k \in keys |-> IF k = "title" THEN name
                                  ELSE IF k = "uses" THEN type_uses[name]
                                  ELSE type_used[name]],
        text |-> corpus[name]]

write_pages(dir) ==
    LET new == {PagePath(n) : n \in DOMAIN specs}
    IN [p \in DOMAIN dir \cup new |->
          IF p \in new
          THEN type_page(CHOOSE n \in DOMAIN specs : PagePath(n) = p)
          ELSE dir[p]]

\* The `for name in specs` loop that writes the data type pages.
Generate ==
    /\ pc = "generate"
    /\ typesDir' = write_pages(typesDir)
    /\ pc' = "list_index"
    /\ UNCHANGED <<todo, pages, depends, visited, specs, corpus, type_uses,
                   type_used, yamlOut, listIndex, err, arg, ret>>

Link(title) ==
    <<"[">> \o title \o <<"]", "(", ".">> \o title \o <<".", "m", "d", ")">>

TableHeader == << <<"A", "P", "I">>, <<"R", "e", "l", "e", "a", "s", "e">> >>

\* The api list page.
ListIndex ==
    /\ pc = "list_index"
    /\ IF \E i \in 1..Len(pages) : "title" \notin DOMAIN pages[i]
       THEN Abort("KeyError") /\ UNCHANGED listIndex
       ELSE LET sorted == SortByTitle(pages)
                data == [i \in 1..Len(sorted) |->
                           <<Link(sorted[i].title), sorted[i].status>>]
            IN /\ listIndex' = [state |-> "written",
                                table |-> tabulate(data, TableHeader)]
               /\ pc' = "types_index"
               /\ err' = err
    /\ UNCHANGED <<todo, pages, depends, visited, specs, corpus, type_uses,
                   type_used, yamlOut, typesDir, arg, ret>>

\* The api type page.
TypesIndex ==
    /\ pc = "types_index"
    /\ typesDir' = DictSet(typesDir, IndexPath,
                           [state |-> "written", links |-> DOMAIN specs])
    /\ pc' = "done"
    /\ UNCHANGED <<todo, pages, depends, visited, specs, corpus, type_uses,
                   type_used, yamlOut, listIndex, err, arg, ret>>

Next ==
    \/ LoadPage
    \/ Seed
    \/ Resolve
    \/ Export
    \/ Graph
    \/ Clean
    \/ Generate
    \/ ListIndex
    \/ TypesIndex

Spec == Init /\ [][Next]_vars

\* The run up to the end of the resolver loop.  The interpreter runs the
\* loop's next iteration as long as there is one.
NextLoop ==
    \/ LoadPage
    \/ Seed
    \/ Resolve

LiveSpec == Init /\ [][NextLoop]_vars /\ WF_vars(Resolve)

-----------------------------------------------------------------------------
(* Properties of main *)

\* The resolver loop has been left normally: depends is empty.
LoopFinished ==
    \/ pc = "resolve" /\ depends = {}
    \/ pc \in {"graph", "clean", "generate", "list_index", "types_index", "done"}

\* The type names stored in the field maps of specs[n], array suffix stripped.
FieldRefs(n) ==
    UNION { {strip_array_suffix(specs[n][k][f]) : f \in DOMAIN specs[n][k]} :
            k \in DOMAIN specs[n] }

\* C1: when the resolver loop has finished, every documentation type that a
\* field map of specs refers to (array suffix stripped) is itself a key of specs.
C1_NoDanglingReference ==
    LoopFinished =>
        \A n \in DOMAIN specs : \A t \in FieldRefs(n) :
            is_documentation_msg(t) => t \in DOMAIN specs

\* The loop has finished and one resolved type refers to another resolved
\* documentation type, reached through an array-typed field.
C1_Witness ==
    /\ LoopFinished
    /\ \E n \in DOMAIN specs : \E k \in DOMAIN specs[n] : \E f \in DOMAIN specs[n][k] :
          /\ specs[n][k][f] # strip_array_suffix(specs[n][k][f])
          /\ strip_array_suffix(specs[n][k][f]) # n
          /\ is_documentation_msg(strip_array_suffix(specs[n][k][f]))

\* C2: the resolver loop terminates: once entered, it reaches an empty depends
\* (or the run ends on an exception), whatever names are popped.
C2_LoopTerminates ==
    (pc = "resolve") ~> (pc = "abort" \/ (pc = "resolve" /\ depends = {}))

\* The loop has finished over schemas that refer to each other in a cycle.
C2_Witness ==
    /\ LoopFinished
    /\ \E a \in DOMAIN specs : \E b \in DOMAIN specs :
          a # b /\ b \in FieldRefs(a) /\ a \in FieldRefs(b)

\* C4: once the dependency graph is built, type_uses and type_used have exactly
\* the keys of specs, each is the transpose of the other, and building the
\* graph never ends on a KeyError.
C4_UsedIsTransposeOfUses ==
    /\ err.at # "graph"
    /\ pc \in {"clean", "generate", "list_index", "types_index", "done"} =>
          /\ DOMAIN type_uses = DOMAIN specs
          /\ DOMAIN type_used = DOMAIN specs
          /\ \A a \in DOMAIN specs : \A b \in DOMAIN specs :
                b \in type_uses[a] <=> a \in type_used[b]

\* The graph is built and holds a one-way edge between two different types.
C4_Witness ==
    /\ pc = "done"
    /\ \E a \in DOMAIN specs : \E b \in DOMAIN specs :
          a # b /\ b \in type_uses[a] /\ a \notin type_uses[b]

\* C5: every key of specs is a documentation type, and no schema file is ever
\* read for a name that is not one: such a name is only marked visited.
C5_KeysAreDocumentationTypes ==
    /\ \A n \in DOMAIN specs : is_documentation_msg(n)
    /\ \A n \in DOMAIN corpus : is_documentation_msg(n)

\* Names of both shapes that are no documentation types (a primitive and a
\* package/msg/Name) have been popped, beside a resolved documentation type.
C5_Witness ==
    /\ LoopFinished
    /\ DOMAIN specs # {}
    /\ \E n \in visited : ~is_documentation_msg(n) /\ Len(Split(n, "/")) = 1
    /\ \E n \in visited : ~is_documentation_msg(n) /\ Len(Split(n, "/")) = 3

OutputsUntouched == yamlOut = Old /\ typesDir = StaleTree /\ listIndex = Old

\* C7: an output file or directory differs from what the run found only when
\* every page is loaded and the resolver loop has finished, both without an
\* exception; a run that ends on an exception while loading or resolving
\* leaves every output as it was.
C7_NoOutputBeforeResolution ==
    /\ ~OutputsUntouched =>
          todo = <<>> /\ LoopFinished /\ err.at \notin {"load", "resolve"}
    /\ (pc = "abort" /\ err.at \in {"load", "resolve"}) => OutputsUntouched

\* The run ended on a schema that could not be parsed, after another type had
\* been resolved.
C7_Witness ==
    /\ pc = "abort"
    /\ err = [exc |-> "ParseError", at |-> "resolve"]
    /\ DOMAIN specs # {}

\* The files in subdirectories of the type-pages root.
TypePages == {p \in DOMAIN typesDir : Len(p) > 1}

\* C8: no file is left in a subdirectory of the type-pages root when the first
\* page is about to be written, and from the page loop's end to the end of the
\* run the files in subdirectories are the pages written in this run, one per
\* key of specs.
C8_FullRegeneration ==
    /\ pc = "generate" => TypePages = {}
    /\ pc \in {"list_index", "types_index", "done"} =>
          /\ TypePages = {PagePath(n) : n \in DOMAIN specs}
          /\ Cardinality(TypePages) = Cardinality(DOMAIN specs)
          /\ \A n \in DOMAIN specs :
                /\ typesDir[PagePath(n)].state = "written"
                /\ typesDir[PagePath(n)].front.title = n

\* The run completed; among the pages it found, one was of a type it resolved
\* again and one of a type it did not.
C8_Witness ==
    /\ pc = "done"
    /\ NameFoo \in DOMAIN specs
    /\ \E p \in DOMAIN StaleTree :
          Len(p) > 1 /\ p \notin {PagePath(n) : n \in DOMAIN specs}

\* The seed names.
Seeds == {pages[i].type : i \in 1..Len(pages)}

\* The names the schema file read for n refers to.
FileRefs(n) ==
    LET types(fields) == {fields[i].type : i \in 1..Len(fields)}
        all == IF n \notin DOMAIN corpus THEN {}
               ELSE IF corpus[n].kind = "msg" THEN types(corpus[n].fields)
               ELSE IF corpus[n].kind = "srv"
               THEN types(corpus[n].request) \cup types(corpus[n].response)
               ELSE {}
    IN {strip_array_suffix(normalize_msg_name(t)) : t \in all}

\* The least set of names that holds S and every name a member's file refers to.
RECURSIVE Closure(_)
Closure(S) ==
    LET T == S \cup UNION {FileRefs(n) : n \in S}
    IN IF T = S THEN S ELSE Closure(T)

\* The field map of a schema's field list.
FieldMap(fields) ==
    [x \in {fields[i].name : i \in 1..Len(fields)} |->
        normalize_msg_name(
            (CHOOSE fd \in Range(fields) : fd.name = x).type)]

ResolvedSpec(file) ==
    IF file.kind = "msg" THEN DropEmpty([msg |-> FieldMap(file.fields)])
    ELSE DropEmpty([req |-> FieldMap(file.request),
                    res |-> FieldMap(file.response)])

\* C10: the result of the loop is a function of the seeds and the schema
\* files alone, whatever the pop order: visited is the closure of the seeds
\* under the references of the schema files, exactly the documentation types
\* of the closure that name a msg or srv file are read and are the keys of
\* specs, each with the field maps of its file; and at every loop head no
\* pending name is a visited one.
C10_ResultIndependentOfPopOrder ==
    /\ pc = "resolve" => depends \cap visited = {}
    /\ LoopFinished =>
          LET reach == Closure(Seeds)
              keys == {n \in reach : is_documentation_msg(n) /\ HasSchemaPath(n)}
          IN /\ visited = reach
             /\ DOMAIN corpus = keys
             /\ DOMAIN specs = keys
             /\ \A n \in keys : specs[n] = ResolvedSpec(corpus[n])

\* The loop finished after a state with several pending names to pop from:
\* two seeds, both resolved, and a further type reached from them.
C10_Witness ==
    /\ LoopFinished
    /\ Cardinality(Seeds) >= 2
    /\ Seeds \subseteq DOMAIN specs
    /\ DOMAIN specs \ Seeds # {}

-----------------------------------------------------------------------------
(* The pure functions, each called on every input of a bounded set.  main  *)
(* does not run: its variables keep the values of an ended run.            *)

MainIdle ==
    /\ todo = <<>>
    /\ pages = <<>>
    /\ depends = {}
    /\ visited = {}
    /\ specs = EmptyDict
    /\ corpus = EmptyDict
    /\ type_uses = EmptyDict
    /\ type_used = EmptyDict
    /\ yamlOut = Old
    /\ typesDir = StaleTree
    /\ listIndex = Old
    /\ err = NoError

\* All sequences over S of at most n elements.
SeqsUpTo(S, n) == UNION {[1..k -> S] : k \in 0..n}

(* normalize_msg_name, applied once and then to its own result *)

NameSymbols == {"pkg", "/", "msg", "Name"}

InitNormalize ==
    /\ pc = "call"
    /\ arg \in SeqsUpTo(NameSymbols, MaxNameLen)
    /\ ret = <<>>
    /\ MainIdle

Normalize ==
    /\ pc = "call"
    /\ ret' = <<normalize_msg_name(arg)>>
    /\ pc' = "once"
    /\ UNCHANGED <<arg, mainVars>>

NormalizeAgain ==
    /\ pc = "once"
    /\ ret' = Append(ret, normalize_msg_name(ret[1]))
    /\ pc' = "twice"
    /\ UNCHANGED <<arg, mainVars>>

NextNormalize ==
    \/ Normalize
    \/ NormalizeAgain

SpecNormalize == InitNormalize /\ [][NextNormalize]_vars

\* C3: normalize_msg_name is idempotent; a name without "/" and a fully
\* qualified package/msg/Name are returned unchanged.
C3_NormalizeIdempotent ==
    /\ pc = "twice" => ret[2] = ret[1]
    /\ (pc = "once" /\ Len(Split(arg, "/")) = 1) => ret[1] = arg
    /\ (pc = "once" /\ Len(Split(arg, "/")) = 3 /\ Split(arg, "/")[2] = <<"msg">>)
          => ret[1] = arg

(* load_markdown_metadata on one file *)

FileLines ==
    {Delim, KV("status", <<"o", "k">>), KV("title", <<"a">>), <<"body">>}

InitLoad ==
    /\ pc = "call"
    /\ arg \in SeqsUpTo(FileLines, MaxLines)
    /\ ret = <<>>
    /\ MainIdle

Load ==
    /\ pc = "call"
    /\ ret' = load_markdown_metadata(arg)
    /\ pc' = "returned"
    /\ UNCHANGED <<arg, mainVars>>

NextLoad ==
    \/ Load

SpecLoad == InitLoad /\ [][NextLoad]_vars

\* The file starts with the delimiter line and has a second one further down.
HasDelimitedBlock(lines) ==
    /\ Len(lines) >= 1
    /\ lines[1] = Delim
    /\ \E j \in 2..Len(lines) : lines[j] = Delim

\* C6: load_markdown_metadata yields a record only for a file with a delimited
\* block, and a file without one yields no record and raises nothing.
C6_UndelimitedFilesAreSkipped ==
    pc = "returned" =>
        /\ ret.kind = "value" => HasDelimitedBlock(arg)
        /\ ~HasDelimitedBlock(arg) => ret.kind = "none"

(* tabulate on one table: a header of one or two cells and rows of as many *)

Cells == {Repeat("x", n) : n \in 0..MaxCellLen}
HeaderCells == {Repeat("H", n) : n \in 1..MaxCellLen}

InitTabulate ==
    /\ pc = "call"
    /\ \E cols \in {1, 2} :
          arg \in [header : [1..cols -> HeaderCells],
                   data : SeqsUpTo([1..cols -> Cells], MaxRows)]
    /\ ret = <<>>
    /\ MainIdle

Tabulate ==
    /\ pc = "call"
    /\ ret' = tabulate(arg.data, arg.header)
    /\ pc' = "returned"
    /\ UNCHANGED <<arg, mainVars>>

NextTabulate ==
    \/ Tabulate

SpecTabulate == InitTabulate /\ [][NextTabulate]_vars

\* The greatest length in column j of the header and the data rows.
ColumnWidth(j) ==
    LET lens == {Len(arg.header[j])} \cup
                {Len(arg.data[i][j]) : i \in 1..Len(arg.data)}
    IN CHOOSE w \in lens : \A l \in lens : w >= l

\* The position of column j's first character in a line: after "| " and the
\* columns before it, each followed by " | ".
RECURSIVE ColumnStart(_)
ColumnStart(j) ==
    IF j = 1 THEN 3 ELSE ColumnStart(j - 1) + ColumnWidth(j - 1) + 3

\* Line is one table row showing cells: "| ", the cells " | " apart, " |",
\* each cell followed by spaces up to its column's width.
ShowsRow(line, cells) ==
    LET n == Len(arg.header)
    IN /\ Len(line) = ColumnStart(n) + ColumnWidth(n) + 1
       /\ line[1] = "|" /\ line[2] = " "
       /\ line[Len(line) - 1] = " " /\ line[Len(line)] = "|"
       /\ \A j \in 1..n :
             /\ Len(cells[j]) <= ColumnWidth(j)
             /\ \A k \in 1..ColumnWidth(j) :
                   line[ColumnStart(j) + k - 1] =
                       IF k <= Len(cells[j]) THEN cells[j][k] ELSE " "
       /\ \A j \in 1..(n - 1) :
             /\ line[ColumnStart(j) + ColumnWidth(j)] = " "
             /\ line[ColumnStart(j) + ColumnWidth(j) + 1] = "|"
             /\ line[ColumnStart(j) + ColumnWidth(j) + 2] = " "

\* C9: tabulate returns the header row, the separator row and the data rows in
\* that order; every column is as wide as the longest of its header and data
\* cells, its separator cell is that many dashes, and every cell is padded to
\* that width.
C9_TabulateLayout ==
    pc = "returned" =>
        LET lines == Split(ret, "\n")
        IN /\ Len(lines) = 2 + Len(arg.data)
           /\ ShowsRow(lines[1], arg.header)
           /\ ShowsRow(lines[2], [j \in 1..Len(arg.header) |->
                                     Repeat("-", ColumnWidth(j))])
           /\ \A i \in 1..Len(arg.data) : ShowsRow(lines[i + 2], arg.data[i])

\* A table was formatted in which one column's width comes from its first
\* data row, the other's from its header, and a later row is shorter.
C9_Witness ==
    /\ pc = "returned"
    /\ Len(arg.header) = 2
    /\ Len(arg.data) = 2
    /\ Len(arg.data[1][1]) > Len(arg.header[1])
    /\ Len(arg.data[2][1]) < Len(arg.data[1][1])
    /\ Len(arg.header[2]) > Len(arg.data[1][2])
    /\ Len(arg.header[2]) > Len(arg.data[2][2])

=============================================================================
